---- MODULE Spec2Model ----
(***************************************************************************)
(* get-linked-data: the crawl-and-extract engine of the 0.3.1 program      *)
(* (Crawler with FailedRequestURLs, asynchronous colly collector) and its  *)
(* main pipeline: LoadUrlFile, SetAllowedDomains, ShuffleURLs,             *)
(* ExecuteScrape, WriteDataFile, WriteErrorFile.                           *)
(***************************************************************************)
EXTENDS Integers, Sequences, FiniteSets

VARIABLES
    pc,                 \* position of main; exit_* after os.Exit(1) in that step
    URLs,               \* Crawler.URLs
    AllowedDomains,     \* Crawler.Collector.AllowedDomains
    ScrapedData,        \* Crawler.ScrapedData
    FailedRequestURLs,  \* Crawler.FailedRequestURLs
    scrapeXML,          \* flag -x
    jqSelector,         \* Crawler.jqSelector (flag -j)
    Parallelism,        \* LimitRule.Parallelism (flag -p)
    MaxDepth,           \* Collector.MaxDepth
    next,               \* index of the next entry of URLs the Visit loop takes
    requests,           \* the requests the collector has accepted, in dispatch order
    visited,            \* the collector's store of visited URLs
    wg,                 \* the collector's WaitGroup counter
    waitChan,           \* tokens held in the limit rule's channel
    dataFile,           \* rows of the scraped-data output file, or NoFile
    errFile,            \* rows of the failed-URL output file, or NoFile
    history,            \* the Crawler methods a caller other than main has called
    loaded,             \* the seed table LoadUrlFile was last called on
    jq,                 \* the last call of jqSelect: its arguments and its result
    delimiter           \* the delimiter LoadUrlFile is called with (flag -d in main)

vars == <<pc, URLs, AllowedDomains, ScrapedData, FailedRequestURLs, scrapeXML,
          jqSelector, Parallelism, MaxDepth, next, requests, visited, wg,
          waitChan, dataFile, errFile, history, loaded, jq,
          delimiter>>

-----------------------------------------------------------------------------
(* Bounds of the model *)

\* rows of the seed table
MaxRows == 2

\* largest value given to the flag -p
MaxParallelism == 2

\* calls of Crawler methods a caller other than main makes after the first
MaxCalls == 3

-----------------------------------------------------------------------------
(* The URLs of the model and what net/url and publicsuffix make of them *)

uA    == "http://www.a.example/x"
uB    == "http://b.example/y"
uCaps == "HTTP://b.example/z"
uPort == "http://b.example:8080/p"
uRel  == "b.example/q"
uBad  == "://nohost"

\* url.Parse(rawURL): ok is FALSE when Parse returns an error; Host keeps the
\* port, Hostname() drops it, String() is the re-serialised URL (scheme in
\* lower case).
urlParse(rawURL) ==
    CASE rawURL = uA    -> [ok |-> TRUE, Host |-> "www.a.example", Hostname |-> "www.a.example",
                            String |-> "http://www.a.example/x"]
      [] rawURL = uB    -> [ok |-> TRUE, Host |-> "b.example", Hostname |-> "b.example",
                            String |-> "http://b.example/y"]
      [] rawURL = uCaps -> [ok |-> TRUE, Host |-> "b.example", Hostname |-> "b.example",
                            String |-> "http://b.example/z"]
      [] rawURL = uPort -> [ok |-> TRUE, Host |-> "b.example:8080", Hostname |-> "b.example",
                            String |-> "http://b.example:8080/p"]
      [] rawURL = uRel  -> [ok |-> TRUE, Host |-> "", Hostname |-> "",
                            String |-> "http://b.example/q"]
      [] rawURL = "http://www.a.example/next"
                        -> [ok |-> TRUE, Host |-> "www.a.example", Hostname |-> "www.a.example",
                            String |-> "http://www.a.example/next"]
      [] OTHER          -> [ok |-> FALSE, Host |-> "", Hostname |-> "", String |-> ""]

\* publicsuffix.Domain(hostname): the registrable domain, an error for a blank name
publicsuffixDomain(hostname) ==
    CASE hostname = "www.a.example" -> [ok |-> TRUE, domain |-> "a.example"]
      [] hostname = "b.example"     -> [ok |-> TRUE, domain |-> "b.example"]
      [] OTHER                      -> [ok |-> FALSE, domain |-> ""]

-----------------------------------------------------------------------------
(* The documents behind the URLs: the texts of the elements the selector  *)
(* matches, in document order, the links of the document, and the URL a   *)
(* redirect inside the fetch layer leads to ("" when there is none).      *)

Page(u) ==
    CASE u = "http://www.a.example/x" ->
            [elements |-> << "not-json", "{\"name\":\"widget\"}" >>,
             links    |-> << "http://www.a.example/next" >>,
             redirect |-> ""]
      [] u = "http://b.example/y" ->
            [elements |-> << "{\"name\":\"gadget\"}" >>,
             links    |-> << >>,
             redirect |-> "http://b.example/moved"]
      [] u = "http://b.example/z" ->
            [elements |-> << "{\n\"name\":\"widget\"\n}" >>,
             links    |-> << >>,
             redirect |-> ""]
      [] u = "http://www.a.example/next" ->
            [elements |-> << "{\"name\":\"linked\"}" >>,
             links    |-> << >>,
             redirect |-> ""]
      [] OTHER ->
            [elements |-> << >>, links |-> << >>, redirect |-> ""]

-----------------------------------------------------------------------------
(* jqSelect *)

JString(s) == [t |-> "string", s |-> s]
JNumber(s) == [t |-> "number", s |-> s]
JNull      == [t |-> "null", s |-> "null"]
JError(s)  == [t |-> "error", s |-> s]

\* the float64 NaN the builtin nan yields: json.Marshal has no text for it
JNaN       == [t |-> "nan", s |-> ""]

\* a map[string]any: its fields f and its text s as json.Marshal writes it
\* (keys sorted, no white space; "null" for the nil map)
JObject(s, f) == [t |-> "object", s |-> s, f |-> f]

\* json.Unmarshal([]byte(text), &jsonData) into a map[string]any: an object
\* fills the map; the JSON null is accepted and leaves the map nil; any other
\* text is an error
jsonUnmarshal(text) ==
    CASE text = "{\"name\":\"widget\"}" ->
            [ok |-> TRUE, obj |-> JObject(text, [name |-> JString("widget")])]
      [] text = "{\"name\":\"gadget\"}" ->
            [ok |-> TRUE, obj |-> JObject(text, [name |-> JString("gadget")])]
      [] text = "{\"name\":\"linked\"}" ->
            [ok |-> TRUE, obj |-> JObject(text, [name |-> JString("linked")])]
      [] text = "{\n\"name\":\"widget\"}" ->
            [ok |-> TRUE, obj |-> JObject("{\"name\":\"widget\"}", [name |-> JString("widget")])]
      [] text = "{\n\"name\":\"widget\"\n}" ->
            [ok |-> TRUE, obj |-> JObject("{\"name\":\"widget\"}", [name |-> JString("widget")])]
      [] text = "{ \"name\": \"widget\", \"id\": 1 }" ->
            [ok |-> TRUE, obj |-> JObject("{\"id\":1,\"name\":\"widget\"}",
                                          [name |-> JString("widget"), id |-> JNumber("1")])]
      [] text = "{\"name\":null}" ->
            [ok |-> TRUE, obj |-> JObject(text, [name |-> JNull])]
      [] text = "{}" ->
            [ok |-> TRUE, obj |-> JObject(text, << >>)]
      [] text = "null" ->
            [ok |-> TRUE, obj |-> JObject("null", << >>)]
      [] OTHER -> [ok |-> FALSE, obj |-> JNull]

Op(op, key, subs) == [op |-> op, key |-> key, subs |-> subs]

\* gojq.Parse(query): the syntax tree, or an error for a text that is not a
\* jq expression; a call of an unknown function parses
gojqParse(query) ==
    CASE query = ".name"      -> [ok |-> TRUE, ast |-> Op("field", "name", << >>)]
      [] query = ".id"        -> [ok |-> TRUE, ast |-> Op("field", "id", << >>)]
      [] query = "."          -> [ok |-> TRUE, ast |-> Op("identity", "", << >>)]
      [] query = "empty"      -> [ok |-> TRUE, ast |-> Op("empty", "", << >>)]
      [] query = "error"      -> [ok |-> TRUE, ast |-> Op("error", "", << >>)]
      [] query = "nan"        -> [ok |-> TRUE, ast |-> Op("nan", "", << >>)]
      [] query = "foo"        -> [ok |-> TRUE, ast |-> Op("func", "foo", << >>)]
      [] query = ".name, .id" ->
            [ok |-> TRUE, ast |-> Op("comma", "", << Op("field", "name", << >>),
                                                     Op("field", "id", << >>) >>)]
      [] query = ".name, error" ->
            [ok |-> TRUE, ast |-> Op("comma", "", << Op("field", "name", << >>),
                                                     Op("error", "", << >>) >>)]
      [] query = "empty, .name" ->
            [ok |-> TRUE, ast |-> Op("comma", "", << Op("empty", "", << >>),
                                                     Op("field", "name", << >>) >>)]
      [] query = ".name | .x" ->
            [ok |-> TRUE, ast |-> Op("pipe", "", << Op("field", "name", << >>),
                                                    Op("field", "x", << >>) >>)]
      [] OTHER                -> [ok |-> FALSE, ast |-> Op("", "", << >>)]

\* jq.Run(jsonData): the sequence of values the iterator yields. The query
\* is compiled here, and a query that does not compile (a function that is
\* not defined) yields the error as the only value.
RECURSIVE gojqRun(_, _)
RECURSIVE gojqPipe(_, _)
gojqRun(ast, v) ==
    CASE ast.op = "field" ->
            IF v.t = "object"
            THEN IF ast.key \in DOMAIN v.f THEN << v.f[ast.key] >> ELSE << JNull >>
            ELSE IF v.t = "null" THEN << JNull >>
            ELSE << JError("cannot index " \o v.t) >>
      [] ast.op = "identity" -> << v >>
      [] ast.op = "empty" -> << >>
      [] ast.op = "error" -> << JError("error") >>
      [] ast.op = "nan"   -> << JNaN >>
      [] ast.op = "func"  -> << JError("function not defined") >>
      [] ast.op = "comma" -> gojqRun(ast.subs[1], v) \o gojqRun(ast.subs[2], v)
      [] ast.op = "pipe"  -> gojqPipe(gojqRun(ast.subs[1], v), ast.subs[2])
      [] OTHER            -> << >>

\* the values of a pipe: the right side run on each value of the left side,
\* up to the first error
gojqPipe(outs, ast) ==
    IF outs = << >> THEN << >>
    ELSE IF Head(outs).t = "error" THEN << Head(outs) >>
    ELSE gojqRun(ast, Head(outs)) \o gojqPipe(Tail(outs), ast)

\* string(rawJSON) after rawJSON, _ := json.Marshal(val): the compact text
\* of the value, and the empty string when Marshal fails (its error is dropped)
jsonMarshal(val) ==
    CASE val.t = "string" -> "\"" \o val.s \o "\""
      [] val.t = "nan"    -> ""
      [] OTHER            -> val.s

\* mutant of jqSelect: the text is checked to be a JSON object before the
\* empty query is looked at
jqSelectCheckFirst(selectedText, query) ==
    LET j == jsonUnmarshal(selectedText) IN
    IF ~j.ok THEN [err |-> "not a valid JSON Object", text |-> ""]
    ELSE IF query = "" THEN [err |-> "", text |-> selectedText]
    ELSE LET q == gojqParse(query) IN
         IF ~q.ok THEN [err |-> "jq Selector Parse Failed", text |-> ""]
         ELSE LET vals == gojqRun(q.ast, j.obj) IN
              IF vals = << >> THEN [err |-> "Failed to Find First Value", text |-> ""]
              ELSE IF vals[1].t = "error" THEN [err |-> "jq Selector Run Failed", text |-> ""]
              ELSE [err |-> "", text |-> jsonMarshal(vals[1])]

\* mutant of jqSelect: the result of Next() is used without looking at ok, so
\* an iterator that yields nothing gives the nil value
jqSelectNoFirstCheck(selectedText, query) ==
    IF query = "" THEN [err |-> "", text |-> selectedText]
    ELSE LET j == jsonUnmarshal(selectedText) IN
         IF ~j.ok THEN [err |-> "not a valid JSON Object", text |-> ""]
         ELSE LET q == gojqParse(query) IN
              IF ~q.ok THEN [err |-> "jq Selector Parse Failed", text |-> ""]
              ELSE LET vals == gojqRun(q.ast, j.obj) IN
                   IF vals = << >> THEN [err |-> "", text |-> "null"]
                   ELSE IF vals[1].t = "error" THEN [err |-> "jq Selector Run Failed", text |-> ""]
                   ELSE [err |-> "", text |-> jsonMarshal(vals[1])]

jqSelect(selectedText, query) ==
    IF query = "" THEN [err |-> "", text |-> selectedText]
    ELSE LET j == jsonUnmarshal(selectedText) IN
         IF ~j.ok THEN [err |-> "not a valid JSON Object", text |-> ""]
         ELSE LET q == gojqParse(query) IN
              IF ~q.ok THEN [err |-> "jq Selector Parse Failed", text |-> ""]
              ELSE LET vals == gojqRun(q.ast, j.obj) IN
                   IF vals = << >> THEN [err |-> "Failed to Find First Value", text |-> ""]
                   ELSE IF vals[1].t = "error" THEN [err |-> "jq Selector Run Failed", text |-> ""]
                   ELSE [err |-> "", text |-> jsonMarshal(vals[1])]

-----------------------------------------------------------------------------
(* Helpers *)

\* an output file that was not created, and one created with the given rows
NoFile == [exists |-> FALSE, rows |-> << >>]

FileOf(rows) == [exists |-> TRUE, rows |-> rows]

\* before LoadUrlFile is called no seed table has been read
NotLoaded == [exists |-> FALSE, malformed |-> FALSE, rows |-> << >>, read |-> FALSE]

\* before jqSelect is called
NoCall == [called |-> FALSE, text |-> "", query |-> "",
           res |-> [err |-> "", text |-> ""]]

Range(s) == {s[i] : i \in 1..Len(s)}

Count(s, x) == Cardinality({i \in 1..Len(s) : s[i] = x})

\* the order-preserving deduplication loop of LoadUrlFile and SetAllowedDomains
RECURSIVE AppendNew(_, _)
AppendNew(list, cands) ==
    IF cands = << >> THEN list
    ELSE AppendNew(IF Head(cands) \in Range(list) THEN list ELSE Append(list, Head(cands)),
                   Tail(cands))

\* the orders a shuffle can leave a list in
Shuffles(s) ==
    {p \in [1..Len(s) -> Range(s)] : \A x \in Range(s) : Count(p, x) = Count(s, x)}

-----------------------------------------------------------------------------
(* The seed tables main is run on: whether the file exists, whether the  *)
(* CSV reader fails on it, and its records (rows of fields)               *)

SeedTable(rows) == [exists |-> TRUE, malformed |-> FALSE, rows |-> rows]

SeedFiles ==
    {f \in { SeedTable(<< <<uA>>, <<uB>> >>),
             SeedTable(<< <<uB>>, <<uCaps>> >>),
             SeedTable(<< <<uA>>, <<uPort>> >>),
             SeedTable(<< <<uB, "note">>, <<uB>> >>),
             SeedTable(<< <<uB, "note">>, <<uB, "more">> >>),
             SeedTable(<< <<uA>>, <<uRel>> >>),
             SeedTable(<< <<uBad>> >>),
             SeedTable(<< <<uA>> >>),
             [exists |-> FALSE, malformed |-> FALSE, rows |-> << >>],
             [exists |-> TRUE, malformed |-> TRUE, rows |-> << <<uA>> >>],
             SeedTable(<< <<uA>>, <<uA>>, <<uB>> >>),
             SeedTable(<< <<uA>>, <<uB>>, <<uCaps>> >>) } : Len(f.rows) <= MaxRows}

jqSelectors == {"", ".name"}

\* values of the flag -d, and of the delimiter argument of LoadUrlFile
Delimiters == {",", "", ";;"}

\* rune(delimiter[0]) for a delimiter that is not empty
FirstByte(d) == CASE d = ";;" -> ";" [] OTHER -> d

\* the text of a line whose fields are separated by commas
RECURSIVE JoinComma(_)
JoinComma(fields) ==
    IF Len(fields) = 1 THEN fields[1]
    ELSE fields[1] \o "," \o JoinComma(Tail(fields))

\* reader.ReadAll() on a table written with commas, read with reader.Comma =
\* comma: the records, or an error for a malformed line and for a record
\* whose number of fields differs from the first record's
csvReadAll(file, comma) ==
    LET records == IF comma = "," THEN file.rows
                   ELSE [i \in 1..Len(file.rows) |-> << JoinComma(file.rows[i]) >>]
    IN  IF file.malformed \/ \E i \in 1..Len(records) : Len(records[i]) # Len(records[1])
        THEN [ok |-> FALSE, records |-> << >>]
        ELSE [ok |-> TRUE, records |-> records]

-----------------------------------------------------------------------------
(* main and the Crawler *)

\* NewCrawler: the crawler and its collector as constructed from the flags
NewCrawler ==
    /\ URLs = << >>
    /\ AllowedDomains = << >>
    /\ ScrapedData = << >>
    /\ FailedRequestURLs = << >>
    /\ scrapeXML \in BOOLEAN
    /\ jqSelector \in jqSelectors
    /\ Parallelism \in 1..MaxParallelism
    /\ MaxDepth \in {1, 5}
    /\ next = 1
    /\ requests = << >>
    /\ visited = {}
    /\ wg = 0
    /\ waitChan = 0
    /\ dataFile = NoFile
    /\ errFile = NoFile
    /\ history = << >>
    /\ loaded = NotLoaded
    /\ jq = NoCall

\* main after flag.Parse
Init ==
    /\ pc = "flags"
    /\ delimiter \in Delimiters
    /\ NewCrawler

\* main validates that the field delimiter is one byte long
CheckFlags ==
    /\ pc = "flags"
    /\ pc' = IF Len(delimiter) # 1 THEN "exit_usage" ELSE "load"
    /\ UNCHANGED <<URLs, AllowedDomains, ScrapedData, FailedRequestURLs, scrapeXML,
                   jqSelector, Parallelism, MaxDepth, next, requests, visited, wg,
                   waitChan, dataFile, errFile, history, loaded, jq, delimiter>>

\* the first column of every record with at least one column, deduplicated
FirstColumns(rows) ==
    AppendNew(<< >>, [i \in 1..Len(SelectSeq(rows, LAMBDA r : Len(r) > 0)) |->
                        SelectSeq(rows, LAMBDA r : Len(r) > 0)[i][1]])

\* mutant of LoadUrlFile: the records are read and added one at a time, so
\* the records before a malformed line are added
LoadUrlFileByRecord ==
    /\ pc = "load"
    /\ \E file \in SeedFiles :
          /\ loaded' = file
          /\ IF ~file.exists
             THEN /\ URLs' = URLs
                  /\ pc' = "exit_load"
             ELSE IF delimiter = ""
             THEN /\ URLs' = URLs
                  /\ pc' = "panic_load"
             ELSE IF ~csvReadAll(file, FirstByte(delimiter)).ok
             THEN /\ URLs' = URLs \o FirstColumns(SubSeq(file.rows, 1, 1))
                  /\ pc' = "exit_load"
             ELSE /\ URLs' = URLs \o FirstColumns(csvReadAll(file, FirstByte(delimiter)).records)
                  /\ pc' = "scope"
    /\ UNCHANGED <<AllowedDomains, ScrapedData, FailedRequestURLs, scrapeXML, jqSelector,
                   Parallelism, MaxDepth, next, requests, visited, wg, waitChan,
                   dataFile, errFile, history, jq, delimiter>>

\* os.Stat or os.Open fails on a missing file; delimiter[0] panics on the
\* empty delimiter; reader.ReadAll fails on a malformed table before any URL
\* is appended; else the first columns of the records are appended
LoadUrlFile ==
    /\ pc = "load"
    /\ \E file \in SeedFiles :
          /\ loaded' = file
          /\ IF ~file.exists
             THEN /\ URLs' = URLs
                  /\ pc' = "exit_load"
             ELSE IF delimiter = ""
             THEN /\ URLs' = URLs
                  /\ pc' = "panic_load"
             ELSE IF ~csvReadAll(file, FirstByte(delimiter)).ok
             THEN /\ URLs' = URLs
                  /\ pc' = "exit_load"
             ELSE /\ URLs' = URLs \o FirstColumns(csvReadAll(file, FirstByte(delimiter)).records)
                  /\ pc' = "scope"
    /\ UNCHANGED <<AllowedDomains, ScrapedData, FailedRequestURLs, scrapeXML, jqSelector,
                   Parallelism, MaxDepth, next, requests, visited, wg, waitChan,
                   dataFile, errFile, history, jq, delimiter>>

\* the loop of SetAllowedDomains over the URL list: the allowed list built, or
\* an error at the first URL that does not parse
RECURSIVE DeriveAllowedDomains(_, _)
DeriveAllowedDomains(list, allowed) ==
    IF list = << >> THEN [ok |-> TRUE, allowed |-> allowed]
    ELSE LET u == urlParse(Head(list)) IN
         IF ~u.ok THEN [ok |-> FALSE, allowed |-> allowed]
         ELSE LET d == publicsuffixDomain(u.Hostname) IN
              IF ~d.ok THEN [ok |-> FALSE, allowed |-> allowed]
              ELSE DeriveAllowedDomains(Tail(list),
                                        AppendNew(allowed, << d.domain, u.Hostname >>))

\* mutant of SetAllowedDomains: the domains found are appended to the list
\* the collector already has
SetAllowedDomainsAppending ==
    /\ pc = "scope"
    /\ LET res == DeriveAllowedDomains(URLs, << >>) IN
         IF res.ok
         THEN /\ AllowedDomains' = AllowedDomains \o res.allowed
              /\ pc' = "shuffle"
         ELSE /\ AllowedDomains' = AllowedDomains
              /\ pc' = "exit_scope"
    /\ UNCHANGED <<URLs, ScrapedData, FailedRequestURLs, scrapeXML, jqSelector,
                   Parallelism, MaxDepth, next, requests, visited, wg, waitChan,
                   dataFile, errFile,
                   history, loaded, jq, delimiter>>

\* mutant of SetAllowedDomains: the list is stored in the collector as it
\* grows, so an error leaves the domains found so far
SetAllowedDomainsPartial ==
    /\ pc = "scope"
    /\ LET res == DeriveAllowedDomains(URLs, << >>) IN
         /\ AllowedDomains' = res.allowed
         /\ pc' = IF res.ok THEN "shuffle" ELSE "exit_scope"
    /\ UNCHANGED <<URLs, ScrapedData, FailedRequestURLs, scrapeXML, jqSelector,
                   Parallelism, MaxDepth, next, requests, visited, wg, waitChan,
                   dataFile, errFile,
                   history, loaded, jq, delimiter>>

\* mutant of SetAllowedDomains: the error is logged and the run goes on
SetAllowedDomainsNoExit ==
    /\ pc = "scope"
    /\ LET res == DeriveAllowedDomains(URLs, << >>) IN
         /\ AllowedDomains' = IF res.ok THEN res.allowed ELSE AllowedDomains
         /\ pc' = "shuffle"
    /\ UNCHANGED <<URLs, ScrapedData, FailedRequestURLs, scrapeXML, jqSelector,
                   Parallelism, MaxDepth, next, requests, visited, wg, waitChan,
                   dataFile, errFile,
                   history, loaded, jq, delimiter>>

\* the allowed list replaces the collector's only after the whole loop; main
\* exits on the error
SetAllowedDomains ==
    /\ pc = "scope"
    /\ LET res == DeriveAllowedDomains(URLs, << >>) IN
         IF res.ok
         THEN /\ AllowedDomains' = res.allowed
              /\ pc' = "shuffle"
         ELSE /\ AllowedDomains' = AllowedDomains
              /\ pc' = "exit_scope"
    /\ UNCHANGED <<URLs, ScrapedData, FailedRequestURLs, scrapeXML, jqSelector,
                   Parallelism, MaxDepth, next, requests, visited, wg, waitChan,
                   dataFile, errFile,
                   history, loaded, jq, delimiter>>

ShuffleURLs ==
    /\ pc = "shuffle"
    /\ URLs' \in Shuffles(URLs)
    /\ pc' = "scrape"
    /\ UNCHANGED <<AllowedDomains, ScrapedData, FailedRequestURLs, scrapeXML, jqSelector,
                   Parallelism, MaxDepth, next, requests, visited, wg, waitChan,
                   dataFile, errFile,
                   history, loaded, jq, delimiter>>

\* ExecuteScrape up to the Visit loop: the output is initialised and the
\* callbacks are registered
ExecuteScrape ==
    /\ pc = "scrape"
    /\ ScrapedData' = << >>
    /\ next' = 1
    /\ pc' = "visit"
    /\ UNCHANGED <<URLs, AllowedDomains, FailedRequestURLs, scrapeXML, jqSelector,
                   Parallelism, MaxDepth, requests, visited, wg, waitChan,
                   dataFile, errFile,
                   history, loaded, jq, delimiter>>

-----------------------------------------------------------------------------
(* The collector: Visit, the fetch goroutine and the callbacks *)

Outcomes == {"ok", "status", "timeout"}

\* Collector.requestCheck: the error Visit returns before a request is made
requestCheck(seen, u, depth) ==
    IF u = "" THEN "ErrMissingURL"
    ELSE IF MaxDepth > 0 /\ MaxDepth < depth THEN "ErrMaxDepth"
    ELSE IF u \in seen THEN "ErrAlreadyVisited"
    ELSE ""

\* Collector.isDomainAllowed
isDomainAllowed(domain) ==
    AllowedDomains = << >> \/ domain \in Range(AllowedDomains)

NewRequest(u, depth, seed) ==
    [url |-> u, seed |-> seed, depth |-> depth, st |-> "spawned", ctx |-> "",
     cur |-> u, outcome |-> "", idx |-> 0, loc |-> << >>, rec |-> "",
     emitted |-> << >>]

\* Collector.scrape on the collector state S = [requests, visited, wg]: the
\* request is checked, counted in the WaitGroup and handed to a goroutine; on
\* an error nothing is started (the caller drops the error)
scrape(S, u, depth, seed) ==
    IF requestCheck(S.visited, u, depth) # "" THEN S
    ELSE LET S1 == [S EXCEPT !.visited = @ \cup {u}]
             p  == urlParse(u)
         IN  IF ~p.ok \/ ~isDomainAllowed(p.Host) THEN S1
             ELSE [S1 EXCEPT !.requests = Append(@, NewRequest(p.String, depth, seed)),
                             !.wg = @ + 1]

RECURSIVE scrapeAll(_, _, _)
scrapeAll(S, us, depth) ==
    IF us = << >> THEN S
    ELSE scrapeAll(scrape(S, Head(us), depth, 0), Tail(us), depth)

\* mutant of FollowLinks: a callback that visits the links of the document
FollowLinksOfPage(page) == page.links

\* the URLs the callbacks registered by ExecuteScrape hand to Request.Visit
\* for a fetched document: the callbacks only append to the outputs
FollowLinks(page) == << >>

\* mutant of Visit: the loop stores the URL as the collector parsed it back
\* into the list
VisitNormalising ==
    /\ pc = "visit"
    /\ next <= Len(URLs)
    /\ LET S == scrape([requests |-> requests, visited |-> visited, wg |-> wg],
                       URLs[next], 1, next)
       IN  /\ requests' = S.requests
           /\ visited' = S.visited
           /\ wg' = S.wg
    /\ URLs' = [URLs EXCEPT ![next] = urlParse(URLs[next]).String]
    /\ next' = next + 1
    /\ UNCHANGED <<pc, AllowedDomains, ScrapedData, FailedRequestURLs, scrapeXML,
                   jqSelector, Parallelism, MaxDepth, waitChan, dataFile, errFile,
                   history, loaded, jq, delimiter>>

\* mutant of Visit: once a request has failed the loop passes over the
\* URLs that are left
VisitUnlessFailed ==
    /\ pc = "visit"
    /\ next <= Len(URLs)
    /\ LET S == IF \E r \in 1..Len(requests) : requests[r].outcome \in {"status", "timeout"}
                THEN [requests |-> requests, visited |-> visited, wg |-> wg]
                ELSE scrape([requests |-> requests, visited |-> visited, wg |-> wg],
                            URLs[next], 1, next)
       IN  /\ requests' = S.requests
           /\ visited' = S.visited
           /\ wg' = S.wg
    /\ next' = next + 1
    /\ UNCHANGED <<pc, URLs, AllowedDomains, ScrapedData, FailedRequestURLs, scrapeXML,
                   jqSelector, Parallelism, MaxDepth, waitChan, dataFile, errFile,
                   history, loaded, jq, delimiter>>

\* one turn of the loop over c.URLs: the error of Visit is dropped
Visit ==
    /\ pc = "visit"
    /\ next <= Len(URLs)
    /\ LET S == scrape([requests |-> requests, visited |-> visited, wg |-> wg],
                       URLs[next], 1, next)
       IN  /\ requests' = S.requests
           /\ visited' = S.visited
           /\ wg' = S.wg
    /\ next' = next + 1
    /\ UNCHANGED <<pc, URLs, AllowedDomains, ScrapedData, FailedRequestURLs, scrapeXML,
                   jqSelector, Parallelism, MaxDepth, waitChan, dataFile, errFile,
                   history, loaded, jq, delimiter>>

\* mutant of Wait: ExecuteScrape returns after the loop without Collector.Wait()
WaitNoBarrier ==
    /\ pc = "visit"
    /\ next > Len(URLs)
    /\ pc' = "write_data"
    /\ UNCHANGED <<URLs, AllowedDomains, ScrapedData, FailedRequestURLs, scrapeXML,
                   jqSelector, Parallelism, MaxDepth, next, requests, visited, wg,
                   waitChan, dataFile, errFile,
                   history, loaded, jq, delimiter>>

\* c.Collector.Wait() and the return of ExecuteScrape
Wait ==
    /\ pc = "visit"
    /\ next > Len(URLs)
    /\ wg = 0
    /\ pc' = "write_data"
    /\ UNCHANGED <<URLs, AllowedDomains, ScrapedData, FailedRequestURLs, scrapeXML,
                   jqSelector, Parallelism, MaxDepth, next, requests, visited, wg,
                   waitChan, dataFile, errFile,
                   history, loaded, jq, delimiter>>

\* the OnRequest callback: the request is tagged with its URL
OnRequest(r) ==
    /\ requests[r].st = "spawned"
    /\ requests' = [requests EXCEPT ![r].ctx = requests[r].url, ![r].st = "requested"]
    /\ UNCHANGED <<pc, URLs, AllowedDomains, ScrapedData, FailedRequestURLs, scrapeXML,
                   jqSelector, Parallelism, MaxDepth, next, visited, wg, waitChan,
                   dataFile, errFile,
                   history, loaded, jq, delimiter>>

\* the size of the limit rule's channel
waitChanSize == IF Parallelism > 1 THEN Parallelism ELSE 1

\* mutant of SlotFree: a limit rule per domain, each with its own channel
SlotFreePerDomain(r) ==
    Cardinality({q \in 1..Len(requests) :
                    /\ requests[q].st = "fetching"
                    /\ urlParse(requests[q].url).Host = urlParse(requests[r].url).Host})
        < waitChanSize

\* the rule "*" matches every domain: one channel for all requests
SlotFree(r) == waitChan < waitChanSize

\* httpBackend.Do takes a token of the limit rule and starts the exchange
DoAcquire(r) ==
    /\ requests[r].st = "requested"
    /\ SlotFree(r)
    /\ waitChan' = waitChan + 1
    /\ requests' = [requests EXCEPT ![r].st = "fetching"]
    /\ UNCHANGED <<pc, URLs, AllowedDomains, ScrapedData, FailedRequestURLs, scrapeXML,
                   jqSelector, Parallelism, MaxDepth, next, visited, wg,
                   dataFile, errFile,
                   history, loaded, jq, delimiter>>

\* the exchange ends (a response, an error status or the request timeout), the
\* random delay is slept and the token is given back
DoReturn(r) ==
    /\ requests[r].st = "fetching"
    /\ waitChan' = waitChan - 1
    /\ \E o \in Outcomes :
          requests' = [requests EXCEPT
              ![r].outcome = o,
              ![r].st = IF o = "ok" THEN "response" ELSE "onerror",
              ![r].idx = IF o = "ok" THEN 1 ELSE 0,
              ![r].cur = IF o = "ok" /\ Page(requests[r].url).redirect # ""
                         THEN Page(requests[r].url).redirect ELSE @]
    /\ UNCHANGED <<pc, URLs, AllowedDomains, ScrapedData, FailedRequestURLs, scrapeXML,
                   jqSelector, Parallelism, MaxDepth, next, visited, wg,
                   dataFile, errFile,
                   history, loaded, jq, delimiter>>

Elements(r) == Page(requests[r].url).elements

\* the OnXML callback on the next matched element, up to its read of c.ScrapedData
OnXML(r) ==
    /\ scrapeXML
    /\ requests[r].st = "response"
    /\ requests[r].idx <= Len(Elements(r))
    /\ requests' = [requests EXCEPT ![r].st = "append",
                                    ![r].rec = Elements(r)[requests[r].idx],
                                    ![r].loc = ScrapedData]
    /\ UNCHANGED <<pc, URLs, AllowedDomains, ScrapedData, FailedRequestURLs, scrapeXML,
                   jqSelector, Parallelism, MaxDepth, next, visited, wg, waitChan,
                   dataFile, errFile,
                   history, loaded, jq, delimiter>>

\* mutant of OnHTML: the return after a jqSelect error is missing, so the
\* empty text is appended
OnHTMLNoReturn(r) ==
    /\ ~scrapeXML
    /\ requests[r].st = "response"
    /\ requests[r].idx <= Len(Elements(r))
    /\ requests' = [requests EXCEPT
                       ![r].st = "append",
                       ![r].rec = jqSelect(Elements(r)[requests[r].idx], jqSelector).text,
                       ![r].loc = ScrapedData]
    /\ UNCHANGED <<pc, URLs, AllowedDomains, ScrapedData, FailedRequestURLs, scrapeXML,
                   jqSelector, Parallelism, MaxDepth, next, visited, wg, waitChan,
                   dataFile, errFile,
                   history, loaded, jq, delimiter>>

\* the OnHTML callback on the next matched element, up to its read of
\* c.ScrapedData; a jqSelect error ends the callback for this element
OnHTML(r) ==
    /\ ~scrapeXML
    /\ requests[r].st = "response"
    /\ requests[r].idx <= Len(Elements(r))
    /\ LET sel == jqSelect(Elements(r)[requests[r].idx], jqSelector) IN
         requests' = IF sel.err # ""
                     THEN [requests EXCEPT ![r].idx = @ + 1]
                     ELSE [requests EXCEPT ![r].st = "append",
                                           ![r].rec = sel.text,
                                           ![r].loc = ScrapedData]
    /\ UNCHANGED <<pc, URLs, AllowedDomains, ScrapedData, FailedRequestURLs, scrapeXML,
                   jqSelector, Parallelism, MaxDepth, next, visited, wg, waitChan,
                   dataFile, errFile,
                   history, loaded, jq, delimiter>>

\* the assignment c.ScrapedData = append(...) of the element callback
AppendScraped(r) ==
    /\ requests[r].st = "append"
    /\ ScrapedData' = Append(requests[r].loc, requests[r].rec)
    /\ requests' = [requests EXCEPT ![r].st = "response",
                                    ![r].idx = @ + 1,
                                    ![r].emitted = Append(@, requests[r].rec),
                                    ![r].rec = "",
                                    ![r].loc = << >>]
    /\ UNCHANGED <<pc, URLs, AllowedDomains, FailedRequestURLs, scrapeXML,
                   jqSelector, Parallelism, MaxDepth, next, visited, wg, waitChan,
                   dataFile, errFile,
                   history, loaded, jq, delimiter>>

\* mutant of OnError: the error callback also runs for a response whose
\* elements have been handled (a document that fails a second parse)
OnErrorAfterElements(r) ==
    /\ \/ requests[r].st = "onerror"
       \/ requests[r].st = "response" /\ requests[r].idx > Len(Elements(r))
    /\ requests' = [requests EXCEPT ![r].st = "appendfailed",
                                    ![r].rec = requests[r].ctx,
                                    ![r].loc = FailedRequestURLs]
    /\ UNCHANGED <<pc, URLs, AllowedDomains, ScrapedData, FailedRequestURLs, scrapeXML,
                   jqSelector, Parallelism, MaxDepth, next, visited, wg, waitChan,
                   dataFile, errFile, history, loaded, jq, delimiter>>

\* the OnError callback up to its read of c.FailedRequestURLs
OnError(r) ==
    /\ requests[r].st = "onerror"
    /\ requests' = [requests EXCEPT ![r].st = "appendfailed",
                                    ![r].rec = requests[r].ctx,
                                    ![r].loc = FailedRequestURLs]
    /\ UNCHANGED <<pc, URLs, AllowedDomains, ScrapedData, FailedRequestURLs, scrapeXML,
                   jqSelector, Parallelism, MaxDepth, next, visited, wg, waitChan,
                   dataFile, errFile,
                   history, loaded, jq, delimiter>>

\* the assignment c.FailedRequestURLs = append(...) of OnError
AppendFailed(r) ==
    /\ requests[r].st = "appendfailed"
    /\ FailedRequestURLs' = Append(requests[r].loc, requests[r].rec)
    /\ requests' = [requests EXCEPT ![r].st = "failed",
                                    ![r].rec = "",
                                    ![r].loc = << >>]
    /\ UNCHANGED <<pc, URLs, AllowedDomains, ScrapedData, scrapeXML,
                   jqSelector, Parallelism, MaxDepth, next, visited, wg, waitChan,
                   dataFile, errFile,
                   history, loaded, jq, delimiter>>

\* mutant of FetchDone: a request that failed is dispatched once more
FetchDoneRetry(r) ==
    /\ \/ requests[r].st = "failed"
       \/ requests[r].st = "response" /\ requests[r].idx > Len(Elements(r))
    /\ LET done == [requests EXCEPT ![r].st = IF @ = "failed" THEN "Failed" ELSE "Succeeded"]
           again == requests[r].st = "failed"
                      /\ Cardinality({q \in 1..Len(requests) : requests[q].seed = requests[r].seed}) = 1
       IN  /\ requests' = IF again
                          THEN Append(done, NewRequest(requests[r].url, requests[r].depth,
                                                       requests[r].seed))
                          ELSE done
           /\ wg' = IF again THEN wg ELSE wg - 1
    /\ UNCHANGED <<pc, URLs, AllowedDomains, ScrapedData, FailedRequestURLs, scrapeXML,
                   jqSelector, Parallelism, MaxDepth, next, visited, waitChan,
                   dataFile, errFile, history, loaded, jq, delimiter>>

\* the end of Collector.fetch: the links the callbacks asked for are
\* dispatched one level deeper and the deferred wg.Done() runs
FetchDone(r) ==
    /\ \/ requests[r].st = "failed"
       \/ requests[r].st = "response" /\ requests[r].idx > Len(Elements(r))
    /\ LET done == [requests EXCEPT ![r].st = IF @ = "failed" THEN "Failed" ELSE "Succeeded"]
           S == IF requests[r].st = "failed"
                THEN [requests |-> done, visited |-> visited, wg |-> wg]
                ELSE scrapeAll([requests |-> done, visited |-> visited, wg |-> wg],
                               FollowLinks(Page(requests[r].url)), requests[r].depth + 1)
       IN  /\ requests' = S.requests
           /\ visited' = S.visited
           /\ wg' = S.wg - 1
    /\ UNCHANGED <<pc, URLs, AllowedDomains, ScrapedData, FailedRequestURLs, scrapeXML,
                   jqSelector, Parallelism, MaxDepth, next, waitChan,
                   dataFile, errFile,
                   history, loaded, jq, delimiter>>

-----------------------------------------------------------------------------
(* The output files *)

\* mutant of StripNewlines: strings.Replace with the count 1
StripFirstNewline(data) ==
    CASE data = "{\n\"name\":\"widget\"}" -> "{\"name\":\"widget\"}"
      [] data = "{\n\"name\":\"widget\"\n}" -> "{\"name\":\"widget\"\n}"
      [] OTHER -> data

\* strings.Replace(data, "\n", "", -1)
StripNewlines(data) ==
    CASE data = "{\n\"name\":\"widget\"}" -> "{\"name\":\"widget\"}"
      [] data = "{\n\"name\":\"widget\"\n}" -> "{\"name\":\"widget\"}"
      [] OTHER -> data

Rows(list) == [i \in 1..Len(list) |-> << StripNewlines(list[i]) >>]

\* os.Create fails or gives the file, which then gets one row per entry
WriteDataFile ==
    /\ pc = "write_data"
    /\ \E created \in BOOLEAN :
          IF created
          THEN /\ dataFile' = FileOf(Rows(ScrapedData))
               /\ pc' = "write_err"
          ELSE /\ dataFile' = dataFile
               /\ pc' = "exit_data"
    /\ UNCHANGED <<URLs, AllowedDomains, ScrapedData, FailedRequestURLs, scrapeXML,
                   jqSelector, Parallelism, MaxDepth, next, requests, visited, wg,
                   waitChan, errFile,
                   history, loaded, jq, delimiter>>

WriteErrorFile ==
    /\ pc = "write_err"
    /\ \E created \in BOOLEAN :
          IF created
          THEN /\ errFile' = FileOf(Rows(FailedRequestURLs))
               /\ pc' = "done"
          ELSE /\ errFile' = errFile
               /\ pc' = "exit_err"
    /\ UNCHANGED <<URLs, AllowedDomains, ScrapedData, FailedRequestURLs, scrapeXML,
                   jqSelector, Parallelism, MaxDepth, next, requests, visited, wg,
                   waitChan, dataFile,
                   history, loaded, jq, delimiter>>

-----------------------------------------------------------------------------

\* the steps of the goroutine of request r
Fetch(r) ==
    /\ r \in 1..Len(requests)
    /\ \/ OnRequest(r)
       \/ DoAcquire(r)
       \/ DoReturn(r)
       \/ OnXML(r)
       \/ OnHTML(r)
       \/ AppendScraped(r)
       \/ OnError(r)
       \/ AppendFailed(r)
       \/ FetchDone(r)

\* the steps of main
Main ==
    \/ CheckFlags
    \/ LoadUrlFile
    \/ SetAllowedDomains
    \/ ShuffleURLs
    \/ ExecuteScrape
    \/ Visit
    \/ Wait
    \/ WriteDataFile
    \/ WriteErrorFile

Next ==
    \/ CheckFlags
    \/ LoadUrlFile
    \/ SetAllowedDomains
    \/ ShuffleURLs
    \/ ExecuteScrape
    \/ Visit
    \/ Wait
    \/ WriteDataFile
    \/ WriteErrorFile
    \/ \E r \in 1..Len(requests) : OnRequest(r)
    \/ \E r \in 1..Len(requests) : DoAcquire(r)
    \/ \E r \in 1..Len(requests) : DoReturn(r)
    \/ \E r \in 1..Len(requests) : OnXML(r)
    \/ \E r \in 1..Len(requests) : OnHTML(r)
    \/ \E r \in 1..Len(requests) : AppendScraped(r)
    \/ \E r \in 1..Len(requests) : OnError(r)
    \/ \E r \in 1..Len(requests) : AppendFailed(r)
    \/ \E r \in 1..Len(requests) : FetchDone(r)

Spec == Init /\ [][Next]_vars

\* main runs on, and the Go scheduler runs every goroutine that can take a
\* step: a fetch ends with a response, an error or the request timeout
FairSpec ==
    /\ Init
    /\ [][Next]_vars
    /\ WF_vars(Main)
    /\ \A r \in 1..MaxRows : WF_vars(Fetch(r))

-----------------------------------------------------------------------------
(* The methods of the Crawler as a program other than main may call them: *)
(* after the first LoadUrlFile, in any order and any number of times.     *)
(* Here an exit_* position is the method's return of its error.           *)

Methods == {"load", "dedup", "scope"}

\* the caller picks the method it calls next
Call ==
    /\ pc \in {"scope", "shuffle", "deduped", "exit_load", "exit_scope"}
    /\ Len(history) < MaxCalls
    /\ \E m \in Methods :
          /\ pc' = m
          /\ history' = Append(history, m)
          /\ IF m = "load" THEN delimiter' \in Delimiters ELSE delimiter' = delimiter
    /\ UNCHANGED <<URLs, AllowedDomains, ScrapedData, FailedRequestURLs, scrapeXML,
                   jqSelector, Parallelism, MaxDepth, next, requests, visited, wg,
                   waitChan, dataFile, errFile, loaded, jq>>

\* mutant of DeduplicateURLs: the bucket is never filled, so every entry
\* is taken for a new one
DeduplicateNoBucket ==
    /\ pc = "dedup"
    /\ URLs' = URLs
    /\ pc' = "deduped"
    /\ UNCHANGED <<AllowedDomains, ScrapedData, FailedRequestURLs, scrapeXML,
                   jqSelector, Parallelism, MaxDepth, next, requests, visited, wg,
                   waitChan, dataFile, errFile, history, loaded, jq, delimiter>>

\* the loop over c.URLs with its own bucket, and the replacement of c.URLs
DeduplicateURLs ==
    /\ pc = "dedup"
    /\ URLs' = AppendNew(<< >>, URLs)
    /\ pc' = "deduped"
    /\ UNCHANGED <<AllowedDomains, ScrapedData, FailedRequestURLs, scrapeXML,
                   jqSelector, Parallelism, MaxDepth, next, requests, visited, wg,
                   waitChan, dataFile, errFile, history, loaded, jq, delimiter>>

MethodsInit ==
    /\ pc = "load"
    /\ delimiter \in Delimiters
    /\ NewCrawler
    /\ ~scrapeXML
    /\ jqSelector = ""
    /\ Parallelism = 1
    /\ MaxDepth = 1

MethodsNext ==
    \/ Call
    \/ LoadUrlFile
    \/ DeduplicateURLs
    \/ SetAllowedDomains

MethodsSpec == MethodsInit /\ [][MethodsNext]_vars

-----------------------------------------------------------------------------
(* jqSelect on its own: every element text with every query *)

ElementTexts ==
    {"", "not-json", "null", "42", "\"widget\"", "[1,2]", "{\"name\":",
     "{\"name\":\"widget\"}", "{\"name\":\"gadget\"}", "{\"name\":\"linked\"}",
     "{\n\"name\":\"widget\"}", "{ \"name\": \"widget\", \"id\": 1 }",
     "{\"name\":null}", "{}"}

Queries ==
    {"", ".name", ".id", ".", "empty", "error", "nan", "foo", ".[",
     ".name, .id", ".name, error", "empty, .name", ".name | .x"}

CalljqSelect ==
    /\ \E text \in ElementTexts, query \in Queries :
          jq' = [called |-> TRUE, text |-> text, query |-> query,
                 res |-> jqSelect(text, query)]
    /\ UNCHANGED <<pc, URLs, AllowedDomains, ScrapedData, FailedRequestURLs, scrapeXML,
                   jqSelector, Parallelism, MaxDepth, next, requests, visited, wg,
                   waitChan, dataFile, errFile, history, loaded, delimiter>>

jqSelectInit ==
    /\ MethodsInit
    /\ delimiter = ","

jqSelectSpec == jqSelectInit /\ [][CalljqSelect]_vars

-----------------------------------------------------------------------------
(* Vocabulary of the properties *)

\* ExecuteScrape has returned
Returned == pc \in {"write_data", "write_err", "done", "exit_data", "exit_err"}

Reqs == 1..Len(requests)

Terminal(r) == requests[r].st \in {"Succeeded", "Failed"}

\* the entry OnError records for the i-th seed URL
EntryOf(i) == urlParse(URLs[i]).String

\* the records the Extraction Pipeline gives for the elements of a page, in
\* document order, failed elements left out
RECURSIVE ExtractAll(_, _)
ExtractAll(elements, query) ==
    IF elements = << >> THEN << >>
    ELSE LET sel == jqSelect(Head(elements), query) IN
         (IF sel.err = "" THEN << sel.text >> ELSE << >>) \o ExtractAll(Tail(elements), query)

\* how many times the callbacks of the requests 1..r appended x
RECURSIVE Emitted(_, _)
Emitted(r, x) ==
    IF r = 0 THEN 0 ELSE Count(requests[r].emitted, x) + Emitted(r - 1, x)

-----------------------------------------------------------------------------
(* C1 *)

\* C1: after ExecuteScrape returns, every seed URL was either fetched
\* successfully and has no entry in FailedRequestURLs, or has exactly one
\* entry in FailedRequestURLs
C1_PartitionCompleteness ==
    Returned =>
        \A i \in 1..Len(URLs) :
            \/ /\ \E r \in Reqs : requests[r].seed = i /\ requests[r].st = "Succeeded"
               /\ Count(FailedRequestURLs, EntryOf(i)) = 0
            \/ Count(FailedRequestURLs, EntryOf(i)) = 1

(* C2 *)

\* C2: when ExecuteScrape returns, each URL whose request failed is present
\* exactly once in FailedRequestURLs, under every interleaving of OnError
C2_FailedExactlyOnce ==
    Returned =>
        \A r \in Reqs :
            requests[r].st = "Failed" => Count(FailedRequestURLs, requests[r].ctx) = 1

(* C3 *)

\* C3: with parallelism > 1, when ExecuteScrape returns ScrapedData holds every
\* record the element callbacks extracted exactly once: as a multiset it is
\* the union of what each successful page contributed
C3_ScrapedIsUnion ==
    (Returned /\ Parallelism > 1) =>
        /\ \A r \in Reqs : \A k \in 1..Len(requests[r].emitted) :
                Count(ScrapedData, requests[r].emitted[k])
                    = Emitted(Len(requests), requests[r].emitted[k])
        /\ \A k \in 1..Len(ScrapedData) :
                Count(ScrapedData, ScrapedData[k]) = Emitted(Len(requests), ScrapedData[k])

(* C4 *)

\* C4: once ExecuteScrape has returned every dispatched request is terminal,
\* the WaitGroup is at zero, no callback is left that could append, and the
\* files written afterwards hold the final contents of both collections
C4_Barrier ==
    /\ Returned => (wg = 0 /\ \A r \in Reqs : Terminal(r))
    /\ dataFile.exists => dataFile.rows = Rows(ScrapedData)
    /\ errFile.exists => errFile.rows = Rows(FailedRequestURLs)

\* ExecuteScrape has returned from a run with a failed and a successful request
C4_Witness ==
    /\ pc = "done"
    /\ \E r \in Reqs : requests[r].st = "Failed"
    /\ \E r \in Reqs : requests[r].st = "Succeeded" /\ requests[r].emitted # << >>
    /\ errFile.exists /\ errFile.rows # << >>
    /\ dataFile.exists /\ dataFile.rows # << >>

(* C5 *)

\* C5: under fair scheduling every dispatched request becomes terminal and
\* ExecuteScrape returns, and a URL whose fetch timed out is then in the
\* failed set exactly once
C5_Liveness ==
    /\ \A r \in 1..MaxRows : (r \in Reqs) ~> (r \in Reqs /\ Terminal(r))
    /\ (pc = "visit") ~> Returned
    /\ [](Returned =>
            \A r \in Reqs : requests[r].outcome = "timeout" =>
                /\ requests[r].st = "Failed"
                /\ Count(FailedRequestURLs, requests[r].ctx) = 1)

(* C6 *)

\* C6: the number of requests dispatched and not yet terminal is at most the
\* configured parallelism
C6_InFlightBounded ==
    Cardinality({r \in Reqs : ~Terminal(r)}) <= Parallelism

\* C6 as amended: the number of requests inside the HTTP exchange (holding a
\* token of the limit rule) is at most the configured parallelism, whatever
\* the domains of the URLs, and the channel counts exactly those requests
C6_ExchangesBounded ==
    /\ Cardinality({r \in Reqs : requests[r].st = "fetching"}) <= Parallelism
    /\ waitChan = Cardinality({r \in Reqs : requests[r].st = "fetching"})

\* one request of one domain is in its exchange and a request of another
\* domain waits for the token
C6_Witness ==
    /\ Parallelism = 1
    /\ \E r, q \in Reqs :
          /\ requests[r].st = "fetching"
          /\ requests[q].st = "requested"
          /\ urlParse(requests[r].url).Host # urlParse(requests[q].url).Host

(* C7 *)

\* C7: every entry of FailedRequestURLs is equal as a string to an entry of
\* the seed list
C7_FailedAreSeeds ==
    \A k \in 1..Len(FailedRequestURLs) : FailedRequestURLs[k] \in Range(URLs)

(* C8 *)

\* C8: every request the collector dispatches is for a URL of the seed list,
\* at the seed level, whatever MaxDepth is
C8_NoFrontierExpansion ==
    \A r \in Reqs :
        /\ requests[r].seed \in 1..Len(URLs)
        /\ requests[r].url = EntryOf(requests[r].seed)
        /\ requests[r].depth = 1

\* a document with a link was fetched by a collector that allows depth 5, and
\* the run is over
C8_Witness ==
    /\ pc = "done"
    /\ MaxDepth = 5
    /\ \E r \in Reqs : /\ requests[r].st = "Succeeded"
                       /\ Page(requests[r].url).links # << >>

(* C9 *)

\* C9: in markup mode, a step of the element callback on an element whose
\* jqSelect fails appends nothing to ScrapedData or FailedRequestURLs and
\* moves on to the next element; a page that ends Succeeded has appended the
\* records of all its other elements, and its URL is not marked failed
C9_ElementFailureContained ==
    /\ [][\A r \in Reqs :
            ( /\ ~scrapeXML
              /\ requests[r].st = "response"
              /\ requests[r].idx <= Len(Elements(r))
              /\ jqSelect(Elements(r)[requests[r].idx], jqSelector).err # ""
              /\ requests'[r] # requests[r] )
            => /\ ScrapedData' = ScrapedData
               /\ FailedRequestURLs' = FailedRequestURLs
               /\ requests'[r] = [requests[r] EXCEPT !.idx = @ + 1]]_vars
    /\ [](\A r \in Reqs :
            (~scrapeXML /\ requests[r].outcome = "ok") =>
                /\ requests[r].st # "Failed"
                /\ requests[r].st = "Succeeded" =>
                      requests[r].emitted = ExtractAll(Elements(r), jqSelector))

\* a page whose first element is not JSON ended Succeeded with the record of
\* its second element
C9_Witness ==
    /\ ~scrapeXML
    /\ jqSelector = ".name"
    /\ \E r \in Reqs :
          /\ requests[r].st = "Succeeded"
          /\ Len(Elements(r)) = 2
          /\ jqSelect(Elements(r)[1], jqSelector).err # ""
          /\ requests[r].emitted = << "\"widget\"" >>
          /\ "\"widget\"" \in Range(ScrapedData)
          /\ FailedRequestURLs = << >>

(* C10 *)

\* C10: in both content modes the records a successful page appended are the
\* results of jqSelect on its elements' texts, failed elements skipped
C10_BothModesExtract ==
    \A r \in Reqs :
        requests[r].st = "Succeeded" =>
            requests[r].emitted = ExtractAll(Elements(r), jqSelector)

(* C11 *)

\* the element texts that are JSON objects
JSONObjectTexts ==
    {"{\"name\":\"widget\"}", "{\"name\":\"gadget\"}", "{\"name\":\"linked\"}",
     "{\n\"name\":\"widget\"}", "{\n\"name\":\"widget\"\n}",
     "{ \"name\": \"widget\", \"id\": 1 }", "{\"name\":null}", "{}"}

\* the texts that are the compact JSON serialization of a value: a NaN has none
CompactJSON(val) ==
    CASE val.t = "string" -> {"\"" \o val.s \o "\""}
      [] val.t = "nan"    -> {}
      [] OTHER            -> {val.s}

\* C11: with the empty query jqSelect returns the element text as it is and
\* no error, whether or not the text is JSON
C11_PassThrough ==
    (jq.called /\ jq.query = "") => jq.res = [err |-> "", text |-> jq.text]

\* jqSelect was called with the empty query on a text that is not JSON
C11_Witness ==
    /\ jq.called
    /\ jq.query = ""
    /\ jq.text = "not-json"
    /\ jq.res.text = "not-json"

(* C12 *)

\* C12: for a text that is not a JSON object and any non-empty query,
\* well-formed or not, jqSelect returns the JSON error and the empty string
C12_JSONErrorFirst ==
    (jq.called /\ jq.query # "" /\ jq.text \notin JSONObjectTexts) =>
        jq.res = [err |-> "not a valid JSON Object", text |-> ""]

(* C13 *)

\* C13: for a JSON-object text and a well-formed query whose first value is
\* not an error, jqSelect returns the compact JSON serialization of that
\* first value and no error, whatever values follow it
C13_FirstValue ==
    (jq.called /\ jq.query # "" /\ jq.text \in JSONObjectTexts /\ gojqParse(jq.query).ok) =>
        LET vals == gojqRun(gojqParse(jq.query).ast, jsonUnmarshal(jq.text).obj) IN
        (vals # << >> /\ vals[1].t # "error") =>
            /\ jq.res.err = ""
            /\ jq.res.text \in CompactJSON(vals[1])

(* C14 *)

\* C14: for a JSON-object text and a non-empty query, jqSelect returns an
\* error exactly when the query does not compile, yields no value, or yields an
\* error as its first value; with every error the returned string is empty
C14_QueryFailures ==
    (jq.called /\ jq.query # "" /\ jq.text \in JSONObjectTexts) =>
        LET q    == gojqParse(jq.query)
            vals == IF q.ok THEN gojqRun(q.ast, jsonUnmarshal(jq.text).obj) ELSE << >>
        IN  /\ jq.res.err # "" <=> (~q.ok \/ vals = << >> \/ vals[1].t = "error")
            /\ jq.res.err # "" => jq.res.text = ""

\* jqSelect was called on a JSON object with a query that yields no value
C14_Witness ==
    /\ jq.called
    /\ jq.text = "{\"name\":\"widget\"}"
    /\ jq.query = "empty"
    /\ jq.res.err # ""

(* C15 *)

\* no entry occurs twice in the list
Distinct(list) == \A i, j \in 1..Len(list) : list[i] = list[j] => i = j

\* the place of the first occurrence of x in the list
FirstIndex(list, x) == CHOOSE i \in 1..Len(list) : list[i] = x /\ \A j \in 1..(i - 1) : list[j] # x

\* the list holds exactly the entries of the source, each once, in the order
\* of their first occurrence in the source
DistinctInOrder(list, source) ==
    /\ Distinct(list)
    /\ Range(list) = Range(source)
    /\ \A i, j \in 1..Len(list) :
          i < j => FirstIndex(source, list[i]) < FirstIndex(source, list[j])

\* C15: after the first LoadUrlFile the URL list is the distinct first
\* fields of the rows in order of first occurrence, and after any number of
\* LoadUrlFile calls on the same crawler the URL list holds no duplicate
C15_LoadDeduplicates ==
    /\ (pc = "scope" /\ history = << >>) =>
          DistinctInOrder(URLs, [i \in 1..Len(loaded.rows) |-> loaded.rows[i][1]])
    /\ (pc = "scope" /\ \A k \in 1..Len(history) : history[k] = "load") =>
          Distinct(URLs)

(* C16 *)

\* C16: a call of DeduplicateURLs leaves the distinct entries of the URL list,
\* each once, in the order of their first occurrence, and leaves a list
\* without duplicates (such as its own result) as it is
C16_DeduplicateIdempotent ==
    [][(pc = "dedup" /\ pc' = "deduped") =>
          /\ DistinctInOrder(URLs', URLs)
          /\ Distinct(URLs) => URLs' = URLs]_vars

\* DeduplicateURLs was called twice in a row on a list that two calls of
\* LoadUrlFile had left with a duplicate
C16_Witness ==
    /\ pc = "deduped"
    /\ history = << "load", "dedup", "dedup" >>
    /\ URLs = << uB, uCaps, uA >>

(* C17 *)

\* SetAllowedDomains fails on the URL: url.Parse or publicsuffix.Domain
\* returns an error
Unscopable(u) == ~urlParse(u).ok \/ ~publicsuffixDomain(urlParse(u).Hostname).ok

\* C17: after SetAllowedDomains succeeds the allowed list holds the hostname
\* and the registrable domain of every URL of the list, without duplicates,
\* and the collector's domain check rejects no URL of the list
C17_ScopeCoverage ==
    pc = "shuffle" =>
        /\ \A i \in 1..Len(URLs) :
              /\ urlParse(URLs[i]).Hostname \in Range(AllowedDomains)
              /\ publicsuffixDomain(urlParse(URLs[i]).Hostname).domain \in Range(AllowedDomains)
              /\ isDomainAllowed(urlParse(URLs[i]).Host)
        /\ Distinct(AllowedDomains)

(* C18 *)

\* C18: the allowed list SetAllowedDomains produces has at most twice as
\* many entries as the URL list
C18_AllowListBound ==
    pc = "shuffle" => Len(AllowedDomains) <= 2 * Len(URLs)

\* SetAllowedDomains was called a second time, on a list of a URL with a
\* hostname that is not its registrable domain
C18_Witness ==
    /\ pc = "shuffle"
    /\ history = << "scope" >>
    /\ URLs = << uA >>
    /\ Len(AllowedDomains) = 2 * Len(URLs)

(* C19 *)

\* C19: a call of SetAllowedDomains on a list with a URL that fails URL or
\* domain parsing returns the error, and a call that returns an error leaves
\* the collector's allowed list as it was
C19_ScopingAllOrNothing ==
    [][(pc = "scope" /\ pc' \in {"shuffle", "exit_scope"}) =>
          /\ (\E i \in 1..Len(URLs) : Unscopable(URLs[i])) => pc' = "exit_scope"
          /\ pc' = "exit_scope" => AllowedDomains' = AllowedDomains]_vars

\* SetAllowedDomains has failed on a crawler whose collector had an allowed
\* list from an earlier call, on a list whose first URLs can be scoped
C19_Witness ==
    /\ pc = "exit_scope"
    /\ AllowedDomains # << >>
    /\ Len(URLs) > 1
    /\ ~Unscopable(URLs[1])
    /\ Unscopable(URLs[Len(URLs)])

(* C20 *)

\* C20: no request is dispatched and no output file is created when
\* LoadUrlFile or SetAllowedDomains fails; requests are dispatched only with
\* the allowed list installed, the data file is written only after the crawl
\* has returned, the failed-URL file only after the data file, and a run that
\* reaches its end has created both
C20_PipelineOrder ==
    /\ (loaded # NotLoaded /\ (~loaded.exists \/ loaded.malformed)) =>
          (requests = << >> /\ ~dataFile.exists /\ ~errFile.exists)
    /\ (\E i \in 1..Len(URLs) : Unscopable(URLs[i])) =>
          (requests = << >> /\ ~dataFile.exists /\ ~errFile.exists)
    /\ pc \in {"load", "scope", "shuffle", "scrape", "exit_load", "exit_scope"} =>
          (requests = << >> /\ ~dataFile.exists /\ ~errFile.exists)
    /\ requests # << >> => AllowedDomains # << >>
    /\ dataFile.exists => (Returned /\ wg = 0)
    /\ errFile.exists => (dataFile.exists /\ pc = "done")
    /\ pc = "done" => (dataFile.exists /\ errFile.exists)

\* a run has ended with both files, the failed-URL file without rows
C20_Witness ==
    /\ pc = "done"
    /\ requests # << >>
    /\ dataFile.exists /\ dataFile.rows # << >>
    /\ errFile.exists /\ errFile.rows = << >>

(* C21 *)

\* C21: a call of LoadUrlFile with a delimiter that is not one character long
\* returns an error and leaves the URL list as it was
C21_DelimiterRejected ==
    [][(pc = "load" /\ pc' # "load" /\ Len(delimiter) # 1) =>
          (pc' = "exit_load" /\ URLs' = URLs)]_vars

(* C29 *)

\* C29: a call of LoadUrlFile that returns an error leaves the URL list as
\* it was before the call
C29_FailedLoadChangesNothing ==
    [][(pc = "load" /\ pc' = "exit_load") => URLs' = URLs]_vars

\* LoadUrlFile has failed on a table whose first line is well formed and
\* whose second line has a different number of fields, on a crawler that
\* had URLs from an earlier call
C29_Witness ==
    /\ pc = "exit_load"
    /\ delimiter = ","
    /\ loaded = SeedTable(<< <<uB, "note">>, <<uB>> >>)
    /\ URLs = << uA >>

(* C22 *)

\* C22: a request whose OnError callback has run, and any request whose URL
\* has an entry in FailedRequestURLs, has had no element callback that
\* appended a record
C22_NoPartialSuccess ==
    \A r \in Reqs :
        ( \/ requests[r].st \in {"appendfailed", "failed", "Failed"}
          \/ requests[r].ctx \in Range(FailedRequestURLs) )
        => /\ requests[r].emitted = << >>
           /\ requests[r].outcome # "ok"

\* the crawl has returned with the URL of a failed request in
\* FailedRequestURLs and the records of another request in ScrapedData
C22_Witness ==
    /\ pc = "write_data"
    /\ \E r, q \in Reqs :
          /\ requests[r].st = "Failed"
          /\ requests[r].ctx \in Range(FailedRequestURLs)
          /\ requests[q].st = "Succeeded"
          /\ requests[q].emitted # << >>
          /\ ScrapedData # << >>

(* C23 *)

\* the entries of sub occur in list in the same order, other entries between them
RECURSIVE IsSubsequence(_, _)
IsSubsequence(sub, list) ==
    IF sub = << >> THEN TRUE
    ELSE IF list = << >> THEN FALSE
    ELSE IF Head(sub) = Head(list) THEN IsSubsequence(Tail(sub), Tail(list))
    ELSE IsSubsequence(sub, Tail(list))

\* C23: when the crawl has returned, the records each successful page
\* contributed are in ScrapedData in the document order of their elements
C23_DocumentOrder ==
    Returned =>
        \A r \in Reqs :
            requests[r].st = "Succeeded" =>
                /\ requests[r].emitted = ExtractAll(Elements(r), IF scrapeXML THEN "" ELSE jqSelector)
                /\ IsSubsequence(requests[r].emitted, ScrapedData)

(* C24 *)

\* Visit returns ErrForbiddenDomain for the i-th entry of the URL list
Rejected(i) == ~isDomainAllowed(urlParse(URLs[i]).Host)

\* C24: whatever requests have failed, every URL the loop has passed was either
\* rejected by Visit or dispatched; when ExecuteScrape returns it has passed
\* the whole list, every dispatched request has failed or has handled all
\* its elements, and main goes on to WriteDataFile (ExecuteScrape returns nil)
C24_FailuresDoNotAbort ==
    /\ [](\A i \in 1..Len(URLs) :
            /\ (pc = "visit" /\ i < next) =>
                  (Rejected(i) \/ \E r \in Reqs : requests[r].seed = i)
            /\ Returned =>
                  /\ next = Len(URLs) + 1
                  /\ \/ Rejected(i)
                     \/ \E r \in Reqs :
                          /\ requests[r].seed = i
                          /\ \/ requests[r].st = "Failed"
                             \/ /\ requests[r].st = "Succeeded"
                                /\ requests[r].emitted =
                                     ExtractAll(Elements(r), IF scrapeXML THEN "" ELSE jqSelector))
    /\ [][pc = "visit" => pc' \in {"visit", "write_data"}]_vars

\* a request has failed while the loop still has a URL to dispatch
C24_Witness ==
    /\ pc = "visit"
    /\ next <= Len(URLs)
    /\ ~Rejected(next)
    /\ \E r \in Reqs : requests[r].st = "Failed"

(* C25 *)

\* C25: the requests are dispatched in the order of the URL list, at most one
\* for an entry at any time of the run (none is dispatched again after it
\* failed), each by the Visit call of the loop for its entry, and when
\* ExecuteScrape returns Visit was called once for every entry
C25_DispatchOnce ==
    /\ [](/\ \A r, q \in Reqs : r < q => requests[r].seed < requests[q].seed
          /\ Len(requests) <= next - 1
          /\ Returned => next - 1 = Len(URLs))
    /\ [][Len(requests') # Len(requests) =>
            /\ pc = "visit"
            /\ next' = next + 1
            /\ Len(requests') = Len(requests) + 1
            /\ requests'[Len(requests')].seed = next
            /\ requests'[Len(requests')].url = EntryOf(next)]_vars

\* the crawl of a list of two URLs has returned with two requests, one of
\* them failed
C25_Witness ==
    /\ Returned
    /\ Len(URLs) = 2
    /\ Len(requests) = 2
    /\ requests[1].st = "Failed"
    /\ requests[1].outcome = "timeout"

(* C26 *)

IsPrefix(old, new) == Len(old) <= Len(new) /\ SubSeq(new, 1, Len(old)) = old

\* C26: every step leaves the previous contents of ScrapedData and of
\* FailedRequestURLs as a prefix of the new contents
C26_AppendOnly ==
    [][/\ IsPrefix(ScrapedData, ScrapedData')
       /\ IsPrefix(FailedRequestURLs, FailedRequestURLs')]_vars

(* C27 *)

\* C27: a step taken while ExecuteScrape dispatches and waits changes
\* nothing but the two result collections, the state of the requests and
\* the position of the loop: the URL list, the allowed list, the sub-query,
\* the content mode, the limit rule, the depth and the files stay as they are
C27_ReadOnlyConfig ==
    [][pc = "visit" =>
          /\ URLs' = URLs
          /\ AllowedDomains' = AllowedDomains
          /\ jqSelector' = jqSelector
          /\ scrapeXML' = scrapeXML
          /\ Parallelism' = Parallelism
          /\ MaxDepth' = MaxDepth
          /\ delimiter' = delimiter
          /\ dataFile' = dataFile
          /\ errFile' = errFile]_vars

\* the crawl is under way on a list with a URL that the collector writes
\* differently: a record is in ScrapedData and a request is not yet terminal
C27_Witness ==
    /\ pc = "visit"
    /\ uCaps \in Range(URLs)
    /\ ScrapedData # << >>
    /\ \E r \in Reqs : ~Terminal(r)

(* C28 *)

\* a text cut at its newline characters: the newlines and the pieces between them
Pieces(text) ==
    CASE text = "{\n\"name\":\"widget\"}"   -> << "{", "\n", "\"name\":\"widget\"}" >>
      [] text = "{\n\"name\":\"widget\"\n}" -> << "{", "\n", "\"name\":\"widget\"", "\n", "}" >>
      [] text = "{\"name\":\"widget\"\n}"   -> << "{\"name\":\"widget\"", "\n", "}" >>
      [] OTHER -> << text >>

RECURSIVE Concat(_)
Concat(pieces) == IF pieces = << >> THEN "" ELSE Head(pieces) \o Concat(Tail(pieces))

\* the rows are one single field for each entry of the list, in its order:
\* the entry without its newline characters
Mirrors(rows, list) ==
    /\ Len(rows) = Len(list)
    /\ \A i \in 1..Len(list) :
          /\ Len(rows[i]) = 1
          /\ "\n" \notin Range(Pieces(rows[i][1]))
          /\ rows[i][1] = Concat(SelectSeq(Pieces(list[i]), LAMBDA piece : piece # "\n"))

\* C28: the rows of each output file mirror its collection, and the write
\* steps leave both collections as they are
C28_RowsMirror ==
    /\ [](/\ dataFile.exists => Mirrors(dataFile.rows, ScrapedData)
          /\ errFile.exists => Mirrors(errFile.rows, FailedRequestURLs))
    /\ [][(pc = "write_data" \/ pc = "write_err") =>
            /\ ScrapedData' = ScrapedData
            /\ FailedRequestURLs' = FailedRequestURLs]_vars

\* both files are written: a record with two newlines is in ScrapedData and
\* its row has none, and the failed-URL file has a row
C28_Witness ==
    /\ pc = "done"
    /\ "{\n\"name\":\"widget\"\n}" \in Range(ScrapedData)
    /\ << "{\"name\":\"widget\"}" >> \in Range(dataFile.rows)
    /\ errFile.rows # << >>

====
